---- MODULE Spec2Model ----
(***************************************************************************)
(* State-machine model of browser_use/drivers/socket.py: the request       *)
(* correlator (SocketRequestManager), two correlators listening to one     *)
(* stream of 'response' events, the session (SocketBrowser) with its       *)
(* setup / close / set_target_browser_client operations, and the remote    *)
(* object handles (context, tracing, page, frame, element, locator,        *)
(* download) whose methods call the correlator and wrap its results.       *)
(*                                                                         *)
(* Python values are modelled as follows.  None is the string NoneVal; a   *)
(* dict is a function from key strings to values; a request identifier     *)
(* (str(uuid.uuid4())) is a positive integer, fresh on every call, and 0   *)
(* stands for a missing / null req_id; a call result is a record           *)
(* [error, body] where error tells an error-shaped result from a success   *)
(* and body is the value: a string, None, a list of ids or the dict that   *)
(* new_context returns.                                                    *)
(***************************************************************************)
EXTENDS Integers, Sequences, FiniteSets, TLC

\* ------------------------------------------------------------------ bounds
MaxCalls == 2
\* derivations of a locator are taken while fewer locators than this exist
MaxLocators == 3

\* ------------------------------------------------------------------ values
NoneVal == "None"

Mgr == {1, 2}
ReqIds == 1..MaxCalls
TargetIds == {NoneVal, "", "A", "B"}
Verbs == {"page_click", "new_page"}

EmptyDict == [k \in {} |-> 0]
ClickArgs == [page_id |-> "p1", req_id |-> 0, target_browser_client_id |-> "caller"]
Payloads == {EmptyDict, ClickArgs}

NoneResult == [error |-> FALSE, body |-> NoneVal]
Results == {[error |-> FALSE, body |-> "1.2.3"],
            [error |-> TRUE, body |-> "boom"]}

NoError == ""

\* variant of Truthy: `is not None` in place of truthiness
Truthy_not_none(x) == x # NoneVal

\* Python truthiness of a string-or-None value and of a request identifier
Truthy(x) == x \notin {NoneVal, ""}
TruthyId(r) == r # 0

\* {**d, k: v}
Merge(d, k, v) == (k :> v) @@ d

\* the 'response' events the remote side can deliver
ResponseTargets == {NoneVal, "A", "B"}
Responses == [browser_client_id : ResponseTargets, req_id : 0..MaxCalls, result : Results]
NoResponse == [browser_client_id |-> NoneVal, req_id |-> 0, result |-> NoneResult]

VARIABLES
    browser_client_id,  \* [Mgr -> TargetIds]: SocketRequestManager._browser_client_id
    futures,            \* [Mgr -> SUBSET ReqIds]: keys of SocketRequestManager._futures
    fut,                \* [ReqIds -> [state, result]]: the future created for each call
    caller,             \* [ReqIds -> [mgr, pc, value, error]]: the coroutine running emit
    next_req_id,        \* number of request identifiers generated so far
    transport,          \* the calls made on the socket.io client, with their outcome
    connected,          \* whether the socket.io client is connected
    response,           \* data of the 'response' event handled in the last step, if any
    handler_error,      \* [Mgr -> STRING]: exception _on_response raised in the last step
    config,             \* [wss_url, cdp_url]: SocketBrowser._config
    supports_auth,      \* whether the installed client's connect() takes auth=
    setup_pc,           \* position of the coroutine running SocketBrowser.setup
    setup_error,        \* exception that left setup, if any
    bootstrap,          \* request identifier of setup's get_version call, 0 if none
    version,            \* SocketBrowser._version
    rebind,             \* [called, arg, error]: last set_target_browser_client call
    handles,            \* the handle objects constructed so far
    method,             \* [ReqIds -> [handle, verb]]: the handle method that issued each call
    returned,           \* [ReqIds -> [kind, handles]]: what that method returned
    property            \* [handle, name, value]: the property read in the last step, if any

vars == <<browser_client_id, futures, fut, caller, next_req_id, transport,
          connected, response, handler_error, config, supports_auth, setup_pc,
          setup_error, bootstrap, version, rebind, handles, method, returned,
          property>>

handle_vars == <<handles, method, returned, property>>

sess_vars == <<config, supports_auth, setup_pc, setup_error, bootstrap, version, rebind>>

NoFuture == [state |-> "none", result |-> NoneResult]
IdleCaller == [mgr |-> 0, pc |-> "idle", value |-> NoneResult, error |-> NoError]
NoErrors == [m \in Mgr |-> NoError]

\* a step that is not the delivery of a 'response' event
NoDelivery == response' = NoResponse /\ handler_error' = NoErrors

\* ------------------------------------------------ SocketRequestManager.emit
\* variant of merge_req_id: {'req_id': req_id, **data}, the caller's key wins
merge_req_id_under(data, req_id) == data @@ ("req_id" :> req_id)

\* emit_data = {**data, 'req_id': req_id}
merge_req_id(data, req_id) == Merge(data, "req_id", req_id)

\* emit_data, with the target put inside the payload when one is configured
emit_data(m, data, req_id) ==
    IF Truthy(browser_client_id[m])
    THEN Merge(merge_req_id(data, req_id), "target_browser_client_id", browser_client_id[m])
    ELSE merge_req_id(data, req_id)

\* the event name and body handed to sio.emit: the routed envelope or the
\* direct emission
emit_message(m, event, data, req_id) ==
    IF Truthy(browser_client_id[m])
    THEN [event |-> "browser_command",
          body |-> [browser_client_id |-> browser_client_id[m],
                    command |-> event,
                    data |-> emit_data(m, data, req_id)]]
    ELSE [event |-> event, body |-> emit_data(m, data, req_id)]

\* sio.emit raises when the client is not connected
sio_emit_outcome == IF connected THEN "ok" ELSE "BadNamespaceError"

sio_emit(event, body) ==
    [op |-> "emit", event |-> event, body |-> body, outcome |-> sio_emit_outcome]

\* variant of emit: the message is handed to the transport while the future
\* is not in the map yet
emit_unregistered(m, event, data) ==
    /\ next_req_id < MaxCalls
    /\ LET req_id == next_req_id + 1
           msg == emit_message(m, event, data, req_id)
       IN
       /\ next_req_id' = req_id
       /\ futures' = futures
       /\ fut' = [fut EXCEPT ![req_id] = [state |-> "pending", result |-> NoneResult]]
       /\ transport' = Append(transport, sio_emit(msg.event, msg.body))
       /\ caller' = [caller EXCEPT ![req_id] =
             IF sio_emit_outcome = "ok"
             THEN [mgr |-> m, pc |-> "emitting", value |-> NoneResult, error |-> NoError]
             ELSE [mgr |-> m, pc |-> "raised", value |-> NoneResult,
                   error |-> sio_emit_outcome]]

\* emit up to its first suspension: generate the id, register the future,
\* build the message and call sio.emit
emit(m, event, data) ==
    /\ next_req_id < MaxCalls
    /\ LET req_id == next_req_id + 1
           msg == emit_message(m, event, data, req_id)
       IN
       /\ next_req_id' = req_id
       /\ futures' = [futures EXCEPT ![m] = @ \cup {req_id}]
       /\ fut' = [fut EXCEPT ![req_id] = [state |-> "pending", result |-> NoneResult]]
       /\ transport' = Append(transport, sio_emit(msg.event, msg.body))
       /\ caller' = [caller EXCEPT ![req_id] =
             IF sio_emit_outcome = "ok"
             THEN [mgr |-> m, pc |-> "emitting", value |-> NoneResult, error |-> NoError]
             ELSE [mgr |-> m, pc |-> "raised", value |-> NoneResult,
                   error |-> sio_emit_outcome]]

\* sio.emit(...) has returned: the coroutine goes on to `await fut`
EmitSent(r) ==
    /\ caller[r].pc = "emitting"
    /\ caller' = [caller EXCEPT ![r].pc = "awaiting"]
    /\ NoDelivery
    /\ UNCHANGED <<browser_client_id, futures, fut, next_req_id, transport, connected>>

\* `return await fut`: the value returned to the caller is the future's result
Return(r) ==
    /\ caller[r].pc = "awaiting"
    /\ fut[r].state = "done"
    /\ caller' = [caller EXCEPT ![r].pc = "returned", ![r].value = fut[r].result]
    /\ NoDelivery
    /\ UNCHANGED <<browser_client_id, futures, fut, next_req_id, transport, connected>>

\* the task running emit is cancelled at one of its two suspension points;
\* cancelling a task that waits on a pending future cancels that future
Cancel(r) ==
    /\ caller[r].pc \in {"emitting", "awaiting"}
    /\ caller' = [caller EXCEPT ![r].pc = "raised", ![r].error = "CancelledError"]
    /\ fut' = IF caller[r].pc = "awaiting" /\ fut[r].state = "pending"
              THEN [fut EXCEPT ![r].state = "cancelled"]
              ELSE fut
    /\ NoDelivery
    /\ UNCHANGED <<browser_client_id, futures, next_req_id, transport, connected>>

\* ---------------------------------------- SocketRequestManager._on_response
\* variant of set_result: the result is stored but the future is not marked
\* done, so its waiter is never woken
set_result_unsignalled(f, result) ==
    IF f.state = "pending" THEN [state |-> "pending", result |-> result] ELSE f

\* Future.set_result: a pending future takes the result, any other raises
set_result(f, result) ==
    IF f.state = "pending" THEN [state |-> "done", result |-> result] ELSE f

set_result_error(f) ==
    IF f.state = "pending" THEN NoError ELSE "InvalidStateError"

\* variant of addressed_here: the handler without its routing filter
addressed_anywhere(m, data) == TRUE

\* variant of addressed_here: a manager without a target takes every response
addressed_here_or_unrouted(m, data) ==
    \/ ~Truthy(browser_client_id[m])
    \/ data.browser_client_id = browser_client_id[m]

\* the routing filter: data.get('browser_client_id') is the manager's target
addressed_here(m, data) == data.browser_client_id = browser_client_id[m]

\* variant of is_registered: the membership test left out
is_registered_unchecked(m, req_id, keys) == TruthyId(req_id)

\* `req_id and req_id in self._futures`
is_registered(m, req_id, keys) == TruthyId(req_id) /\ req_id \in keys[m]

\* variant of on_response: resolves the oldest pending call, whatever id the
\* response carries
on_response_oldest(m, data, st) ==
    IF ~addressed_here(m, data) \/ st.futures[m] = {}
    THEN st
    ELSE LET r == CHOOSE x \in st.futures[m] : \A y \in st.futures[m] : x <= y IN
         [futures |-> [st.futures EXCEPT ![m] = @ \ {r}],
          fut |-> [st.fut EXCEPT ![r] = set_result(@, data.result)],
          error |-> [st.error EXCEPT ![m] = set_result_error(st.fut[r])]]

\* variant of on_response: self._futures.get(req_id) in place of pop(req_id)
on_response_keep(m, data, st) ==
    IF ~addressed_here(m, data)
    THEN st
    ELSE IF is_registered(m, data.req_id, st.futures)
         THEN [futures |-> st.futures,
               fut |-> [st.fut EXCEPT ![data.req_id] = set_result(@, data.result)],
               error |-> [st.error EXCEPT ![m] = set_result_error(st.fut[data.req_id])]]
         ELSE st

\* one invocation of the handler of manager m on the state st = [futures, fut, error]
on_response(m, data, st) ==
    IF ~addressed_here(m, data)
    THEN st
    ELSE IF is_registered(m, data.req_id, st.futures)
         THEN [futures |-> [st.futures EXCEPT ![m] = @ \ {data.req_id}],
               fut |-> [st.fut EXCEPT ![data.req_id] = set_result(@, data.result)],
               error |-> [st.error EXCEPT ![m] = set_result_error(st.fut[data.req_id])]]
         ELSE st

\* a 'response' event: every manager registered on the client handles it
Response(data) ==
    LET st0 == [futures |-> futures, fut |-> fut, error |-> NoErrors]
        st1 == on_response(1, data, st0)
        st2 == on_response(2, data, st1)
    IN /\ response' = data
       /\ futures' = st2.futures
       /\ fut' = st2.fut
       /\ handler_error' = st2.error
       /\ UNCHANGED <<browser_client_id, caller, next_req_id, transport, connected>>

\* ------------------------------------------------------------ SocketBrowser
python_client_id == "python_1_abcdefghi"
auth_data == [clientType |-> "python", clientId |-> python_client_id]

\* url = self._config.wss_url or self._config.cdp_url
setup_url == IF Truthy(config.wss_url) THEN config.wss_url ELSE config.cdp_url

\* sio.connect(url, transports=['websocket'][, auth=auth]) and how it ended
sio_connect(url, auth, outcome) ==
    [op |-> "connect", event |-> url, body |-> auth, outcome |-> outcome]

\* how a connect call can end: a client whose connect() has no auth parameter
\* rejects the inline-auth call with a TypeError
connect_outcomes(auth) ==
    IF auth # EmptyDict /\ ~supports_auth
    THEN {"TypeError"}
    ELSE {"ok", "ConnectionError"}

\* setup up to the end of the inline-auth connect attempt
SetupBegin ==
    /\ setup_pc = "idle"
    /\ IF ~Truthy(setup_url)
       THEN /\ setup_pc' = "failed"
            /\ setup_error' = "ValueError"
            /\ UNCHANGED <<transport, connected>>
       ELSE \E outcome \in connect_outcomes(auth_data) :
               /\ transport' = Append(transport, sio_connect(setup_url, auth_data, outcome))
               /\ connected' = (outcome = "ok")
               /\ setup_pc' = CASE outcome = "ok" -> "connected"
                                [] outcome = "TypeError" -> "fallback"
                                [] OTHER -> "failed"
               /\ setup_error' = IF outcome \in {"ok", "TypeError"} THEN NoError ELSE outcome
    /\ NoDelivery
    /\ UNCHANGED handle_vars
    /\ UNCHANGED <<browser_client_id, futures, fut, caller, next_req_id, config,
                   supports_auth, bootstrap, version, rebind>>

\* except TypeError: connect again without auth
SetupFallbackConnect ==
    /\ setup_pc = "fallback"
    /\ \E outcome \in connect_outcomes(EmptyDict) :
          /\ transport' = Append(transport, sio_connect(setup_url, EmptyDict, outcome))
          /\ connected' = (outcome = "ok")
          /\ setup_pc' = IF outcome = "ok" THEN "client_auth" ELSE "failed"
          /\ setup_error' = IF outcome = "ok" THEN NoError ELSE outcome
    /\ NoDelivery
    /\ UNCHANGED handle_vars
    /\ UNCHANGED <<browser_client_id, futures, fut, caller, next_req_id, config,
                   supports_auth, bootstrap, version, rebind>>

\* variant of SetupClientAuth: the fallback without its 'client_auth' emission
SetupClientAuth_omitted ==
    /\ setup_pc = "client_auth"
    /\ setup_pc' = "connected"
    /\ NoDelivery
    /\ UNCHANGED handle_vars
    /\ UNCHANGED <<browser_client_id, futures, fut, caller, next_req_id, transport,
                   connected, config, supports_auth, setup_error, bootstrap, version,
                   rebind>>

\* ... and send the auth data in a 'client_auth' event
SetupClientAuth ==
    /\ setup_pc = "client_auth"
    /\ transport' = Append(transport, sio_emit("client_auth", auth_data))
    /\ setup_pc' = IF sio_emit_outcome = "ok" THEN "connected" ELSE "failed"
    /\ setup_error' = IF sio_emit_outcome = "ok" THEN NoError ELSE sio_emit_outcome
    /\ NoDelivery
    /\ UNCHANGED handle_vars
    /\ UNCHANGED <<browser_client_id, futures, fut, caller, next_req_id, connected,
                   config, supports_auth, bootstrap, version, rebind>>

\* self._version = await self._req.emit('get_version', {}): the call is issued
SetupGetVersion ==
    /\ setup_pc = "connected"
    /\ emit(1, "get_version", EmptyDict)
    /\ bootstrap' = next_req_id'
    /\ setup_pc' = "bootstrap"
    /\ NoDelivery
    /\ UNCHANGED handle_vars
    /\ UNCHANGED <<browser_client_id, connected, config, supports_auth, setup_error,
                   version, rebind>>

\* variant of SetupFinish: an exception of the call is swallowed
SetupFinish_swallow ==
    /\ setup_pc = "bootstrap"
    /\ caller[bootstrap].pc \in {"returned", "raised"}
    /\ version' = caller[bootstrap].value
    /\ setup_pc' = "ready"
    /\ NoDelivery
    /\ UNCHANGED handle_vars
    /\ UNCHANGED <<browser_client_id, futures, fut, caller, next_req_id, transport,
                   connected, config, supports_auth, setup_error, bootstrap, rebind>>

\* ... and its outcome: the version is stored, or the exception leaves setup
SetupFinish ==
    /\ setup_pc = "bootstrap"
    /\ caller[bootstrap].pc \in {"returned", "raised"}
    /\ IF caller[bootstrap].pc = "returned"
       THEN /\ version' = caller[bootstrap].value
            /\ setup_pc' = "ready"
            /\ UNCHANGED setup_error
       ELSE /\ setup_pc' = "failed"
            /\ setup_error' = caller[bootstrap].error
            /\ UNCHANGED version
    /\ NoDelivery
    /\ UNCHANGED handle_vars
    /\ UNCHANGED <<browser_client_id, futures, fut, caller, next_req_id, transport,
                   connected, config, supports_auth, bootstrap, rebind>>

\* variant of close: disconnecting also fails every pending call
close_rejecting ==
    /\ connected
    /\ connected' = FALSE
    /\ futures' = [m \in Mgr |-> {}]
    /\ fut' = [r \in ReqIds |->
                 IF fut[r].state = "pending"
                 THEN [state |-> "cancelled", result |-> NoneResult]
                 ELSE fut[r]]
    /\ NoDelivery
    /\ UNCHANGED handle_vars
    /\ UNCHANGED <<browser_client_id, caller, next_req_id, transport, sess_vars>>

\* SocketBrowser.close: await self._sio.disconnect()
close ==
    /\ connected
    /\ connected' = FALSE
    /\ NoDelivery
    /\ UNCHANGED handle_vars
    /\ UNCHANGED <<browser_client_id, futures, fut, caller, next_req_id, transport,
                   sess_vars>>

\* SocketBrowser.set_target_browser_client: SocketRequestManager defines no
\* method of that name, so the attribute lookup raises
set_target_browser_client(id) ==
    /\ rebind' = [called |-> TRUE, arg |-> id, error |-> "AttributeError"]
    /\ NoDelivery
    /\ UNCHANGED handle_vars
    /\ UNCHANGED <<browser_client_id, futures, fut, caller, next_req_id, transport,
                   connected, config, supports_auth, setup_pc, setup_error, bootstrap,
                   version>>

\* ---------------------------------------------------- remote object handles
\* A handle object is a record of its fields: id is the handle's own id
\* (_ctx_id, _page_id, _frame_id, _el_id, _download_id, and _parent_id for a
\* locator), page_id is _page_id of a frame, an element or a locator, selector
\* and exact belong to a locator, and items lists the ids of the handles a
\* browser (_contexts) or a context (_pages) keeps.  Python's False and True are
\* the strings "False" and "True".
Handle(kind, id, page_id) ==
    [kind |-> kind, id |-> id, page_id |-> page_id, selector |-> NoneVal,
     exact |-> NoneVal, items |-> <<>>]

NoHandle == Handle("none", NoneVal, NoneVal)
TheBrowser == Handle("browser", NoneVal, NoneVal)

SocketPage(page_id) == Handle("page", page_id, NoneVal)
SocketContext(ctx_id, pages) ==
    [Handle("context", ctx_id, NoneVal) EXCEPT
        !.items = [i \in 1..Len(pages) |-> pages[i].id]]
SocketTracing(ctx_id) == Handle("tracing", ctx_id, NoneVal)
SocketFrame(frame_id, page_id) == Handle("frame", frame_id, page_id)
SocketDownload(download_id) == Handle("download", download_id, NoneVal)
SocketElementHandle(el_id, page_id) == Handle("element", el_id, page_id)
SocketLocator(parent_id, selector, exact, page_id) ==
    [Handle("locator", parent_id, page_id) EXCEPT
        !.selector = selector, !.exact = exact]

\* list.append on the _contexts / _pages of a browser or a context
append(h, x) == [h EXCEPT !.items = Append(@, x.id)]

\* what the remote side returns
RemoteIds == {"r1", "r2"}
IdResults == {[error |-> FALSE, body |-> i] : i \in RemoteIds}
MaybeIdResults == IdResults \cup {NoneResult}
IdLists == {<<>>, <<"r1", "r2">>, <<"r2", "r1">>}
ListResults == {[error |-> FALSE, body |-> l] : l \in IdLists}
PageLists == {<<>>, <<[id |-> "r2"], [id |-> "r1"]>>}
ContextResults ==
    {[error |-> FALSE, body |-> [contextId |-> c, pages |-> l]] :
        c \in {"r1"}, l \in PageLists}

\* arguments of the handle methods
Selectors == {"#a"}
Texts == {"ok"}
NoArgs == <<>>
OverridingKwargs == [context_id |-> "kw", page_id |-> "kw", element_id |-> "kw"]
Kwargs == {EmptyDict, OverridingKwargs}

NoMethod == [handle |-> NoHandle, verb |-> "none"]
NotReturned == [kind |-> "pending", handles |-> <<>>]
NoProperty == [handle |-> NoHandle, name |-> "none", value |-> NoneVal]

\* the payloads the handle methods build
new_context_data(kwargs) == kwargs
new_page_data(h) == [context_id |-> h.id]
tracing_start_data(h, kwargs) == kwargs @@ [context_id |-> h.id]
page_goto_data(h, url, kwargs) == [page_id |-> h.id, url |-> url, kwargs |-> kwargs]
page_frames_data(h) == [page_id |-> h.id]
page_query_selector_data(h, selector) == [page_id |-> h.id, selector |-> selector]
page_expect_download_data(h, args, kwargs) ==
    [page_id |-> h.id, args |-> args, kwargs |-> kwargs]
frame_query_selector_data(h, selector) == [frame_id |-> h.id, selector |-> selector]
element_query_selector_data(h, selector) ==
    [element_id |-> h.id, page_id |-> h.page_id, selector |-> selector]
element_click_data(h, args, kwargs) ==
    [element_id |-> h.id, page_id |-> h.page_id, args |-> args, kwargs |-> kwargs]
locator_data(h) == [parent_id |-> h.id, selector |-> h.selector, exact |-> h.exact]
download_save_as_data(h, path) == [download_id |-> h.id, path |-> path]

\* the task that drives the handles is not inside a call
Idle == \A r \in ReqIds : caller[r].pc \in {"idle", "returned", "raised"}

\* a handle method up to the suspension of its emit
HandleCall(h, verb, data) ==
    /\ Idle
    /\ h \in handles
    /\ emit(1, verb, data)
    /\ method' = [method EXCEPT ![next_req_id'] = [handle |-> h, verb |-> verb]]
    /\ property' = NoProperty
    /\ NoDelivery
    /\ UNCHANGED <<browser_client_id, connected, sess_vars, handles, returned>>

Browser_new_context(h, kwargs) ==
    h.kind = "browser" /\ HandleCall(h, "new_context", new_context_data(kwargs))
Context_new_page(h) ==
    h.kind = "context" /\ HandleCall(h, "new_page", new_page_data(h))
Tracing_start(h, kwargs) ==
    h.kind = "tracing" /\ HandleCall(h, "tracing_start", tracing_start_data(h, kwargs))
Page_goto(h, url, kwargs) ==
    h.kind = "page" /\ HandleCall(h, "page_goto", page_goto_data(h, url, kwargs))
Page_frames(h) ==
    h.kind = "page" /\ HandleCall(h, "page_frames", page_frames_data(h))
Page_query_selector(h, selector) ==
    /\ h.kind = "page"
    /\ HandleCall(h, "page_query_selector", page_query_selector_data(h, selector))
Page_query_selector_all(h, selector) ==
    /\ h.kind = "page"
    /\ HandleCall(h, "page_query_selector_all", page_query_selector_data(h, selector))
Page_expect_download(h, kwargs) ==
    /\ h.kind = "page"
    /\ HandleCall(h, "page_expect_download", page_expect_download_data(h, NoArgs, kwargs))
Frame_query_selector(h, selector) ==
    /\ h.kind = "frame"
    /\ HandleCall(h, "frame_query_selector", frame_query_selector_data(h, selector))
Frame_query_selector_all(h, selector) ==
    /\ h.kind = "frame"
    /\ HandleCall(h, "frame_query_selector_all", frame_query_selector_data(h, selector))
Element_query_selector(h, selector) ==
    /\ h.kind = "element"
    /\ HandleCall(h, "element_query_selector", element_query_selector_data(h, selector))
Element_query_selector_all(h, selector) ==
    /\ h.kind = "element"
    /\ HandleCall(h, "element_query_selector_all", element_query_selector_data(h, selector))
Element_click(h, kwargs) ==
    /\ h.kind = "element"
    /\ HandleCall(h, "element_click", element_click_data(h, NoArgs, kwargs))
Locator_element_handle(h) ==
    h.kind = "locator" /\ HandleCall(h, "locator_element_handle", locator_data(h))
Locator_first(h) ==
    h.kind = "locator" /\ HandleCall(h, "locator_first", locator_data(h))
Download_save_as(h, path) ==
    h.kind = "download" /\ HandleCall(h, "download_save_as", download_save_as_data(h, path))

\* self._page_id of the handle a method runs on
self_page_id(h) == IF h.kind = "page" THEN h.id ELSE h.page_id

ReturnedNone == [kind |-> "none", handles |-> <<>>]
ReturnedHandle(x) == [kind |-> "handle", handles |-> <<x>>]
ReturnedList(l) == [kind |-> "list", handles |-> l]

\* variant of element_or_none: the element is built around the id of the
\* handle the query was made on
element_or_none_own_id(h, el_id) ==
    IF ~Truthy(el_id)
    THEN ReturnedNone
    ELSE ReturnedHandle(SocketElementHandle(el_id, h.id))

\* `if not el_id: return None`, else SocketElementHandle(req, el_id, self._page_id)
element_or_none(h, el_id) ==
    IF ~Truthy(el_id)
    THEN ReturnedNone
    ELSE ReturnedHandle(SocketElementHandle(el_id, self_page_id(h)))

\* variant of element_list: the handles in the reverse order of the ids
element_list_reversed(h, el_ids) ==
    ReturnedList([i \in 1..Len(el_ids) |->
        SocketElementHandle(el_ids[Len(el_ids) + 1 - i], self_page_id(h))])

\* [SocketElementHandle(req, eid, self._page_id) for eid in el_ids]
element_list(h, el_ids) ==
    ReturnedList([i \in 1..Len(el_ids) |-> SocketElementHandle(el_ids[i], self_page_id(h))])

\* [SocketFrame(req, fid, self._page_id) for fid in frame_ids]
frame_list(h, frame_ids) ==
    ReturnedList([i \in 1..Len(frame_ids) |-> SocketFrame(frame_ids[i], h.id)])

\* [SocketPage(req, page['id']) for page in response['pages']]
page_list(pages) == [i \in 1..Len(pages) |-> SocketPage(pages[i].id)]

\* SocketContext(req, response['contextId'], pages)
new_context_return(v) == ReturnedHandle(SocketContext(v.contextId, page_list(v.pages)))

\* what the method that issued a call returns for the result v of emit
method_return(h, verb, v) ==
    CASE verb = "new_context" -> new_context_return(v)
      [] verb = "new_page" -> ReturnedHandle(SocketPage(v))
      [] verb = "page_expect_download" -> ReturnedHandle(SocketDownload(v))
      [] verb = "page_frames" -> frame_list(h, v)
      [] verb \in {"page_query_selector", "frame_query_selector",
                   "element_query_selector", "locator_element_handle",
                   "locator_first"} -> element_or_none(h, v)
      [] verb \in {"page_query_selector_all", "frame_query_selector_all",
                   "element_query_selector_all"} -> element_list(h, v)
      [] OTHER -> ReturnedNone

SeqToSet(l) == {l[i] : i \in 1..Len(l)}

\* the rest of a handle method once emit has returned: the result is wrapped,
\* a new context is appended to the browser's contexts and a new page to the
\* context's pages
HandleReturn(r) ==
    /\ method[r].verb # "none"
    /\ Return(r)
    /\ LET h == method[r].handle
           verb == method[r].verb
           v == fut[r].result.body
           ret == method_return(h, verb, v)
       IN /\ returned' = [returned EXCEPT ![r] = ret]
          /\ handles' =
                CASE verb = "new_context" ->
                        (handles \ {h}) \cup {append(h, ret.handles[1])}
                            \cup SeqToSet(ret.handles) \cup SeqToSet(page_list(v.pages))
                  [] verb = "new_page" ->
                        (handles \ {h}) \cup {append(h, ret.handles[1])}
                            \cup SeqToSet(ret.handles)
                  [] OTHER -> handles \cup SeqToSet(ret.handles)
    /\ property' = NoProperty
    /\ UNCHANGED <<sess_vars, method>>

HandleEmitSent(r) ==
    /\ EmitSent(r)
    /\ property' = NoProperty
    /\ UNCHANGED <<sess_vars, handles, method, returned>>

\* the results the remote side gives for a verb
results_for(verb) ==
    CASE verb = "new_context" -> ContextResults
      [] verb \in {"new_page", "page_expect_download"} -> IdResults
      [] verb \in {"page_query_selector", "frame_query_selector",
                   "element_query_selector", "locator_element_handle",
                   "locator_first"} -> MaybeIdResults
      [] verb \in {"page_frames", "page_query_selector_all",
                   "frame_query_selector_all", "element_query_selector_all"} -> ListResults
      [] OTHER -> {NoneResult}

\* the remote side answers a call it received
HandleResponse(r) ==
    /\ connected
    /\ r \in futures[1]
    /\ \E result \in results_for(method[r].verb) :
          Response([browser_client_id |-> browser_client_id[1], req_id |-> r,
                    result |-> result])
    /\ property' = NoProperty
    /\ UNCHANGED <<sess_vars, handles, method, returned>>

\* a synchronous method or property of a handle: it may construct handles and
\* it may return a value
Sync(h, constructed, prop) ==
    /\ Idle
    /\ h \in handles
    /\ handles' = handles \cup constructed
    /\ property' = prop
    /\ NoDelivery
    /\ UNCHANGED <<browser_client_id, futures, fut, caller, next_req_id, transport,
                   connected, sess_vars, method, returned>>

\* f'text={text}'
text_selector(text) == "text=" \o text

\* the locators constructed so far
Locators == {h \in handles : h.kind = "locator"}

\* a synchronous method of a locator that builds another locator
Derive(h, constructed, name, value) ==
    /\ h.kind = "locator"
    /\ Cardinality(Locators) < MaxLocators
    /\ Sync(h, constructed, [handle |-> h, name |-> name, value |-> value])

\* the keyword parameters of SocketLocator.__init__
locator_init_keywords == {"exact", "page_id"}
kwarg(kwargs, key, default) == IF key \in DOMAIN kwargs THEN kwargs[key] ELSE default
FilterKwargs == {EmptyDict, [exact |-> "True"], [has_text |-> "ok"]}
Indexes == {0, 1}
DerivedSelectors == {"#b"}

\* SocketLocator(self._req, self._parent_id, self._selector, **kwargs)
Locator_filter(h, kwargs) ==
    IF DOMAIN kwargs \subseteq locator_init_keywords
    THEN Derive(h, {SocketLocator(h.id, h.selector,
                                  kwarg(kwargs, "exact", "False"),
                                  kwarg(kwargs, "page_id", NoneVal))},
                "filter", NoneVal)
    ELSE Derive(h, {}, "filter", "TypeError")

\* the index is not used
Locator_nth(h, index) ==
    Derive(h, {SocketLocator(h.id, h.selector, h.exact, h.page_id)}, "nth", NoneVal)
Locator_locator(h, selector) ==
    Derive(h, {SocketLocator(h.id, selector, h.exact, h.page_id)}, "locator", NoneVal)
Locator_frame_locator(h, selector) ==
    Derive(h, {SocketLocator(h.id, selector, h.exact, h.page_id)},
           "frame_locator", NoneVal)

Context_tracing(h) ==
    h.kind = "context" /\ Sync(h, {SocketTracing(h.id)}, NoProperty)
Page_locator(h, selector) ==
    h.kind = "page" /\ Sync(h, {SocketLocator(h.id, selector, h.id, NoneVal)}, NoProperty)
Page_frame_locator(h, selector) ==
    h.kind = "page" /\ Sync(h, {SocketLocator(h.id, selector, h.id, NoneVal)}, NoProperty)
Page_get_by_text(h, text, exact) ==
    /\ h.kind = "page"
    /\ Sync(h, {SocketLocator(h.id, text_selector(text), exact, h.id)}, NoProperty)
Frame_locator(h, selector) ==
    /\ h.kind = "frame"
    /\ Sync(h, {SocketLocator(h.id, selector, h.page_id, NoneVal)}, NoProperty)
Frame_frame_locator(h, selector) ==
    /\ h.kind = "frame"
    /\ Sync(h, {SocketLocator(h.id, selector, h.page_id, NoneVal)}, NoProperty)

\* the properties that stand for remote state
page_url(h) == h.id
frame_url(h) == h.id
suggested_filename(h) == h.id

Page_url(h) ==
    h.kind = "page" /\ Sync(h, {}, [handle |-> h, name |-> "url", value |-> page_url(h)])
Frame_url(h) ==
    h.kind = "frame" /\ Sync(h, {}, [handle |-> h, name |-> "url", value |-> frame_url(h)])
Download_suggested_filename(h) ==
    /\ h.kind = "download"
    /\ Sync(h, {}, [handle |-> h, name |-> "suggested_filename",
                    value |-> suggested_filename(h)])

\* ------------------------------------------------------------ specification
\* routing targets of the two managers that share the client
TargetPairs == {t \in [Mgr -> TargetIds] : t[2] = "B"}
DistinctPairs == {t \in TargetPairs : t[1] \in {NoneVal, "A"}}

Configs == {[wss_url |-> NoneVal, cdp_url |-> NoneVal],
            [wss_url |-> NoneVal, cdp_url |-> ""],
            [wss_url |-> "ws://host", cdp_url |-> "http://cdp"],
            [wss_url |-> "", cdp_url |-> "http://cdp"]}

InitCorrelator ==
    /\ futures = [m \in Mgr |-> {}]
    /\ fut = [r \in ReqIds |-> NoFuture]
    /\ caller = [r \in ReqIds |-> IdleCaller]
    /\ next_req_id = 0
    /\ transport = <<>>
    /\ response = NoResponse
    /\ handler_error = NoErrors

InitSession ==
    /\ setup_pc = "idle"
    /\ setup_error = NoError
    /\ bootstrap = 0
    /\ version = NoneResult
    /\ rebind = [called |-> FALSE, arg |-> NoneVal, error |-> NoError]

\* no handle but the browser, no handle method called
InitObjects ==
    /\ handles = {TheBrowser}
    /\ method = [r \in ReqIds |-> NoMethod]
    /\ returned = [r \in ReqIds |-> NotReturned]
    /\ property = NoProperty

\* managers built on a client that is already connected
InitConnected ==
    /\ InitCorrelator
    /\ connected = TRUE
    /\ config = [wss_url |-> "ws://host", cdp_url |-> NoneVal]
    /\ supports_auth = TRUE
    /\ InitSession

\* a call made through a handle, with the given verb and payload
Call(m, event, data) ==
    /\ emit(m, event, data)
    /\ NoDelivery
    /\ UNCHANGED <<browser_client_id, connected, sess_vars, handle_vars>>

EmitSentStep == \E r \in ReqIds : EmitSent(r) /\ UNCHANGED <<sess_vars, handle_vars>>
ReturnStep == \E r \in ReqIds : Return(r) /\ UNCHANGED <<sess_vars, handle_vars>>
CancelStep == \E r \in ReqIds : Cancel(r) /\ UNCHANGED <<sess_vars, handle_vars>>
\* the client hands events to its handlers only while it is connected
ResponseStep ==
    \E data \in Responses :
        connected /\ Response(data) /\ UNCHANGED <<sess_vars, handle_vars>>
Rebind == \E id \in {"A", "B"} : set_target_browser_client(id)

\* Spec: one manager issues calls, its callers may be cancelled, and a second
\* manager listens to the same responses
Init ==
    /\ browser_client_id \in DistinctPairs
    /\ InitConnected
    /\ InitObjects

ClickCall == Call(1, "page_click", ClickArgs)

Next ==
    \/ ClickCall
    \/ EmitSentStep
    \/ ReturnStep
    \/ CancelStep
    \/ ResponseStep
    \/ close

Spec == Init /\ [][Next]_vars

\* SpecLive: the calls of Spec on a client that stays connected, under the
\* scheduling of the event loop: a sio.emit that succeeds returns, and a task
\* whose future is done is resumed
NextLive ==
    \/ ClickCall
    \/ EmitSentStep
    \/ ReturnStep
    \/ CancelStep
    \/ ResponseStep

InitLive ==
    /\ browser_client_id = [m \in Mgr |-> IF m = 1 THEN "A" ELSE "B"]
    /\ InitConnected
    /\ InitObjects

SpecLive ==
    /\ InitLive
    /\ [][NextLive]_vars
    /\ WF_vars(EmitSentStep)
    /\ WF_vars(ReturnStep)

\* SpecShared: both managers issue calls on the shared client
SharedCall == \E m \in Mgr : Call(m, "page_click", ClickArgs)

NextShared ==
    \/ SharedCall
    \/ EmitSentStep
    \/ ReturnStep
    \/ ResponseStep

SpecShared == Init /\ [][NextShared]_vars

\* SpecEmit: emit applied to every verb, payload and routing target
InitEmit ==
    /\ browser_client_id \in TargetPairs
    /\ InitConnected
    /\ InitObjects

AnyCall == \E m \in Mgr, event \in Verbs, data \in Payloads : Call(m, event, data)

NextEmit ==
    \/ AnyCall
    \/ EmitSentStep

SpecEmit == InitEmit /\ [][NextEmit]_vars

\* SpecBrowser: one SocketBrowser, from construction through setup to close
InitBrowser ==
    /\ browser_client_id \in DistinctPairs
    /\ InitCorrelator
    /\ connected = FALSE
    /\ config \in Configs
    /\ supports_auth \in BOOLEAN
    /\ InitSession
    /\ InitObjects

NextBrowser ==
    \/ SetupBegin
    \/ SetupFallbackConnect
    \/ SetupClientAuth
    \/ SetupGetVersion
    \/ SetupFinish
    \/ EmitSentStep
    \/ ReturnStep
    \/ CancelStep
    \/ ResponseStep
    \/ close
    \/ Rebind

SpecBrowser == InitBrowser /\ [][NextBrowser]_vars

\* SpecHandles: one task drives the handles of an open session, one call at a
\* time; the session already holds a context with a page, a frame and an
\* element of that page, and a download
OpenedContext == SocketContext("c0", <<SocketPage("p0")>>)
OpenedHandles ==
    {append(TheBrowser, OpenedContext), OpenedContext, SocketPage("p0"),
     SocketFrame("f0", "p0"), SocketElementHandle("e0", "p0"), SocketDownload("d0")}

InitHandles ==
    /\ browser_client_id = [m \in Mgr |-> IF m = 1 THEN "A" ELSE "B"]
    /\ InitConnected
    /\ handles = OpenedHandles
    /\ method = [r \in ReqIds |-> NoMethod]
    /\ returned = [r \in ReqIds |-> NotReturned]
    /\ property = NoProperty

NextHandles ==
    \/ \E h \in handles : Browser_new_context(h, EmptyDict)
    \/ \E h \in handles : Context_new_page(h)
    \/ \E h \in handles : Context_tracing(h)
    \/ \E h \in handles, kwargs \in Kwargs : Tracing_start(h, kwargs)
    \/ \E h \in handles, kwargs \in Kwargs : Page_goto(h, "http://x", kwargs)
    \/ \E h \in handles : Page_frames(h)
    \/ \E h \in handles, selector \in Selectors : Page_query_selector(h, selector)
    \/ \E h \in handles, selector \in Selectors : Page_query_selector_all(h, selector)
    \/ \E h \in handles : Page_expect_download(h, EmptyDict)
    \/ \E h \in handles, selector \in Selectors : Frame_query_selector(h, selector)
    \/ \E h \in handles, selector \in Selectors : Frame_query_selector_all(h, selector)
    \/ \E h \in handles, selector \in Selectors : Element_query_selector(h, selector)
    \/ \E h \in handles, selector \in Selectors : Element_query_selector_all(h, selector)
    \/ \E h \in handles, kwargs \in Kwargs : Element_click(h, kwargs)
    \/ \E h \in handles : Download_save_as(h, "/tmp/f")
    \/ \E r \in ReqIds : HandleEmitSent(r)
    \/ \E r \in ReqIds : HandleResponse(r)
    \/ \E r \in ReqIds : HandleReturn(r)

SpecHandles == InitHandles /\ [][NextHandles]_vars

\* SpecLocators: the same task and session; locators are made from the page and
\* the frame and resolved, the elements are used, and the properties that
\* stand for remote state are read
NextLocators ==
    \/ \E h \in handles, selector \in Selectors : Page_locator(h, selector)
    \/ \E h \in handles, selector \in Selectors : Page_frame_locator(h, selector)
    \/ \E h \in handles, text \in Texts, exact \in {"False", "True"} :
          Page_get_by_text(h, text, exact)
    \/ \E h \in handles, selector \in Selectors : Frame_locator(h, selector)
    \/ \E h \in handles, selector \in Selectors : Frame_frame_locator(h, selector)
    \/ \E h \in handles : Locator_element_handle(h)
    \/ \E h \in handles : Locator_first(h)
    \/ \E h \in handles : Element_click(h, EmptyDict)
    \/ \E h \in handles : Page_url(h)
    \/ \E h \in handles : Frame_url(h)
    \/ \E h \in handles : Download_suggested_filename(h)
    \/ \E r \in ReqIds : HandleEmitSent(r)
    \/ \E r \in ReqIds : HandleResponse(r)
    \/ \E r \in ReqIds : HandleReturn(r)

SpecLocators == InitHandles /\ [][NextLocators]_vars

\* locators of a page and of a frame, the locators derived from them, and
\* their calls
NextDerive ==
    \/ \E h \in handles, selector \in Selectors : Page_locator(h, selector)
    \/ \E h \in handles, text \in Texts, exact \in {"False", "True"} :
          Page_get_by_text(h, text, exact)
    \/ \E h \in handles, selector \in Selectors : Frame_locator(h, selector)
    \/ \E h \in handles, kwargs \in FilterKwargs : Locator_filter(h, kwargs)
    \/ \E h \in handles, index \in Indexes : Locator_nth(h, index)
    \/ \E h \in handles, selector \in DerivedSelectors : Locator_locator(h, selector)
    \/ \E h \in handles, selector \in DerivedSelectors :
          Locator_frame_locator(h, selector)
    \/ \E h \in handles : Locator_element_handle(h)
    \/ \E r \in ReqIds : HandleEmitSent(r)
    \/ \E r \in ReqIds : HandleResponse(r)
    \/ \E r \in ReqIds : HandleReturn(r)

SpecDerive == InitHandles /\ [][NextDerive]_vars

\* ------------------------------------------------------------------ claims
Delivered == response # NoResponse
Delivering == response' # NoResponse

\* C1: the value a call returns is the result field of the response that
\* carries the call's own req_id: a future is resolved only by a response with
\* its id and takes that response's result, it keeps that result, and the
\* caller returns exactly the result of its own future.
C1_ResultOfOwnResponse ==
    [][\A r \in ReqIds :
          /\ (fut[r].state # "done" /\ fut'[r].state = "done")
                => /\ Delivering
                   /\ response'.req_id = r
                   /\ fut'[r].result = response'.result
          /\ (fut[r].state = "done") => (fut'[r] = fut[r])
          /\ (caller[r].pc # "returned" /\ caller'[r].pc = "returned")
                => (fut[r].state = "done" /\ caller'[r].value = fut[r].result)
          /\ (caller[r].pc = "returned") => (caller'[r] = caller[r])]_vars

\* call 2 has returned the result of the response with req_id 2 while call 1,
\* issued before it, still waits
C1_OutOfOrder ==
    /\ caller[2].pc = "returned"
    /\ caller[2].value \in Results
    /\ caller[1].pc = "awaiting"
    /\ fut[1].state = "pending"

\* C2: a response addressed to the target of one manager never removes and
\* never resolves a pending call of a manager with another target.
C2_OtherTargetUntouched ==
    [][\A a \in Mgr, b \in Mgr :
          (/\ Delivering
           /\ browser_client_id[a] # browser_client_id[b]
           /\ response'.browser_client_id = browser_client_id[a])
          => /\ futures'[b] = futures[b]
             /\ \A r \in futures[b] : fut'[r] = fut[r]]_vars

\* a response addressed to manager 1 and carrying the id of a call pending in
\* manager 2 has just been delivered, and that call is still pending
C2_ForeignResponseDelivered ==
    /\ Delivered
    /\ response.browser_client_id = browser_client_id[1]
    /\ browser_client_id[1] # browser_client_id[2]
    /\ response.req_id \in futures[2]
    /\ fut[response.req_id].state = "pending"

\* C3: a response with another browser_client_id, or with a req_id that is not
\* registered, leaves the pending map and every pending future as they were
\* and the handler raises nothing.
C3_DroppedSilently ==
    [][\A m \in Mgr :
          (/\ Delivering
           /\ \/ response'.browser_client_id # browser_client_id[m]
              \/ response'.req_id \notin futures[m])
          => /\ futures'[m] = futures[m]
             /\ \A r \in futures[m] : fut'[r] = fut[r]
             /\ handler_error'[m] = NoError]_vars

\* a response for the right target with an id that was never generated has
\* just been delivered while a call is pending
C3_UnknownIdDelivered ==
    /\ Delivered
    /\ response.browser_client_id = browser_client_id[1]
    /\ response.req_id > next_req_id
    /\ futures[1] # {}

\* C4: the first matching response removes exactly its id from the map,
\* resolves that future with its result and touches no other call; a future
\* once resolved never changes and never returns to the map; a further
\* response with the same id changes nothing and raises nothing.
C4_ResolvedOnce ==
    [][\A m \in Mgr, r \in ReqIds :
          /\ (/\ Delivering
              /\ response'.req_id = r
              /\ response'.browser_client_id = browser_client_id[m])
             => IF r \in futures[m]
                THEN /\ futures'[m] = futures[m] \ {r}
                     /\ fut[r].state = "pending"
                           => fut'[r] = [state |-> "done", result |-> response'.result]
                     /\ \A q \in ReqIds \ {r} : fut'[q] = fut[q]
                     /\ \A n \in Mgr \ {m} : futures'[n] = futures[n]
                ELSE /\ futures' = futures
                     /\ fut' = fut
                     /\ handler_error' = NoErrors
          /\ (fut[r].state = "done")
             => (fut'[r] = fut[r] /\ r \notin futures'[m])]_vars

\* a second response with the id of call 1 has just been delivered, after call 1
\* returned, while call 2 is registered and pending
C4_SecondResponseDelivered ==
    /\ Delivered
    /\ response.browser_client_id = browser_client_id[1]
    /\ response.req_id = 1
    /\ caller[1].pc = "returned"
    /\ 2 \in futures[1]
    /\ fut[2].state = "pending"

\* the last call made on the client
LastCall_next == transport'[Len(transport')]

\* body is the payload data with req_id, and the keys of extra, merged in
PayloadWith(body, data, req_id, extra) ==
    /\ DOMAIN body = DOMAIN data \cup {"req_id"} \cup DOMAIN extra
    /\ body["req_id"] = req_id
    /\ \A k \in DOMAIN extra : body[k] = extra[k]
    /\ \A k \in DOMAIN data \ ({"req_id"} \cup DOMAIN extra) : body[k] = data[k]

\* C5: set_target_browser_client(id) completes without error and the
\* session's manager is then bound to id.
C5_RebindTakesEffect ==
    rebind.called => (rebind.error = NoError /\ browser_client_id[1] = rebind.arg)

\* C6 as stated: one message per call; with a target, 'browser_command' with
\* {browser_client_id, command, data} where data is the payload with the fresh
\* req_id merged in; without one, the verb with the payload and the fresh req_id.
C6_EnvelopeShape ==
    [][\A m \in Mgr, event \in Verbs, data \in Payloads :
          Call(m, event, data)
          => /\ Len(transport') = Len(transport) + 1
             /\ LastCall_next.op = "emit"
             /\ IF browser_client_id[m] \notin {NoneVal, ""}
                THEN /\ LastCall_next.event = "browser_command"
                     /\ DOMAIN LastCall_next.body = {"browser_client_id", "command", "data"}
                     /\ LastCall_next.body.browser_client_id = browser_client_id[m]
                     /\ LastCall_next.body.command = event
                     /\ PayloadWith(LastCall_next.body.data, data, next_req_id', EmptyDict)
                ELSE /\ LastCall_next.event = event
                     /\ PayloadWith(LastCall_next.body, data, next_req_id', EmptyDict)]_vars

\* C6 amended: as above (a target is configured when it is neither None nor
\* empty), except that the data of the envelope also carries
\* target_browser_client_id = target, replacing a key of that name in the payload.
C6_EnvelopeShapeWithTarget ==
    [][\A m \in Mgr, event \in Verbs, data \in Payloads :
          Call(m, event, data)
          => /\ Len(transport') = Len(transport) + 1
             /\ LastCall_next.op = "emit"
             /\ IF browser_client_id[m] \notin {NoneVal, ""}
                THEN /\ LastCall_next.event = "browser_command"
                     /\ DOMAIN LastCall_next.body = {"browser_client_id", "command", "data"}
                     /\ LastCall_next.body.browser_client_id = browser_client_id[m]
                     /\ LastCall_next.body.command = event
                     /\ PayloadWith(LastCall_next.body.data, data, next_req_id',
                                    [target_browser_client_id |-> browser_client_id[m]])
                ELSE /\ LastCall_next.event = event
                     /\ PayloadWith(LastCall_next.body, data, next_req_id', EmptyDict)]_vars

\* an envelope and a direct emission have both been sent for payloads that
\* came with a req_id key of their own
C6_BothShapesSent ==
    \E i, j \in 1..Len(transport) :
        /\ transport[i].event = "browser_command"
        /\ transport[i].body.command \in Verbs
        /\ "page_id" \in DOMAIN transport[i].body.data
        /\ transport[j].event \in Verbs
        /\ "page_id" \in DOMAIN transport[j].body

\* C7: a caller never receives an error-shaped result as an ordinary return
\* value (a response with such a result rejects the caller instead).
C7_ErrorResultRejects ==
    \A r \in ReqIds : caller[r].pc = "returned" => ~caller[r].value.error

IsGetVersion(c) ==
    /\ c.op = "emit"
    /\ IF c.event = "browser_command"
       THEN c.body.command = "get_version"
       ELSE c.event = "get_version"

\* C8: when connect rejects the inline-auth attempt with a TypeError, the calls
\* setup makes on the client are, in this order, that attempt, a connect
\* without auth, an emission of 'client_auth' with the payload of the attempt,
\* and the get_version call; the TypeError never leaves setup; a ready session
\* has made all four.
C8_FallbackOrder ==
    (Len(transport) > 0 /\ transport[1].outcome = "TypeError")
    => /\ setup_error # "TypeError"
       /\ Len(transport) <= 4
       /\ transport[1].op = "connect" /\ transport[1].body = auth_data
       /\ Len(transport) >= 2
             => /\ transport[2].op = "connect"
                /\ transport[2].event = transport[1].event
                /\ transport[2].body = EmptyDict
       /\ Len(transport) >= 3
             => /\ transport[2].outcome = "ok"
                /\ transport[3].op = "emit"
                /\ transport[3].event = "client_auth"
                /\ transport[3].body = transport[1].body
       /\ Len(transport) >= 4
             => /\ transport[3].outcome = "ok"
                /\ IsGetVersion(transport[4])
       /\ setup_pc \in {"bootstrap", "ready"} => Len(transport) = 4
       /\ setup_pc = "ready" => transport[4].outcome = "ok"

\* setup became ready through the fallback
C8_FallbackReady ==
    /\ ~supports_auth
    /\ setup_pc = "ready"
    /\ version = [error |-> FALSE, body |-> "1.2.3"]

GetVersionCalls == {i \in 1..Len(transport) : IsGetVersion(transport[i])}
OpenedAt == {i \in 1..Len(transport) :
                transport[i].op = "connect" /\ transport[i].outcome = "ok"}

\* C9: setup issues at most one get_version call, exactly one once it is past
\* the connection phase, and only after a connect that succeeded; the version
\* is the value that call returned and is set only then; if the call raises,
\* setup fails with that exception, the version stays unset and the session
\* never becomes ready.
C9_OneBootstrapCall ==
    /\ Cardinality(GetVersionCalls) = next_req_id
    /\ next_req_id = (IF bootstrap = 0 THEN 0 ELSE 1)
    /\ setup_pc \in {"bootstrap", "ready"} => bootstrap # 0
    /\ \A i \in GetVersionCalls : \E j \in OpenedAt : j < i
    /\ (version # NoneResult \/ setup_pc = "ready")
          => /\ bootstrap # 0
             /\ caller[bootstrap].pc = "returned"
             /\ version = caller[bootstrap].value
             /\ version = fut[bootstrap].result
             /\ setup_pc = "ready"
    /\ (bootstrap # 0 /\ caller[bootstrap].pc = "raised")
          => /\ setup_pc \in {"bootstrap", "failed"}
             /\ version = NoneResult
             /\ setup_pc = "failed" => setup_error = caller[bootstrap].error

\* the get_version call raised and setup failed with its exception
C9_BootstrapFailed ==
    /\ setup_pc = "failed"
    /\ bootstrap # 0
    /\ caller[bootstrap].pc = "raised"
    /\ setup_error = caller[bootstrap].error

\* C10: with neither wss_url nor cdp_url set, setup fails with ValueError and
\* no connect was attempted, nothing was emitted and no call was registered.
C10_NoUrlFailsFirst ==
    (config.wss_url \in {NoneVal, ""} /\ config.cdp_url \in {NoneVal, ""})
    => /\ transport = <<>>
       /\ ~connected
       /\ next_req_id = 0
       /\ \A m \in Mgr : futures[m] = {}
       /\ setup_pc \in {"idle", "failed"}
       /\ setup_pc = "failed" => setup_error = "ValueError"

\* setup has failed for want of an endpoint URL
C10_ConfigurationError ==
    /\ setup_pc = "failed"
    /\ setup_error = "ValueError"
    /\ transport = <<>>

\* the payload of a logged emission, inside or outside the routing envelope
data_of(c) == IF c.event = "browser_command" THEN c.body.data ELSE c.body

\* the payload call r sent (under SpecHandles and SpecLocators the r-th entry
\* of the log is the emission of call r)
SentData(r) == data_of(transport[r])

\* the payload key under which a handle of a kind sends its own id
id_key(kind) ==
    CASE kind \in {"context", "tracing"} -> "context_id"
      [] kind = "page" -> "page_id"
      [] kind = "frame" -> "frame_id"
      [] kind = "element" -> "element_id"
      [] kind = "download" -> "download_id"
      [] OTHER -> "parent_id"

\* C11: every call issued through a handle sends, under the key of the
\* handle's id field, exactly the id the handle holds, whatever the arguments
\* of the method, keyword arguments named like that key included.
C11_IdSentUnchanged ==
    \A r \in 1..next_req_id :
        method[r].handle.kind \notin {"none", "browser"}
        => /\ id_key(method[r].handle.kind) \in DOMAIN SentData(r)
           /\ SentData(r)[id_key(method[r].handle.kind)] = method[r].handle.id

\* the page from which a locator was created: the page itself, or the page of
\* the frame, whose id the locator holds as its parent id
origin_pages(loc) ==
    {self_page_id(parent) : parent \in
        {h \in handles : h.kind \in {"page", "frame"} /\ h.id = loc.id}}

\* C12: the element a locator resolves to (element_handle() or first) carries
\* as its page id the id of the page from which the locator was created.
C12_ElementCarriesPageId ==
    \A r \in 1..next_req_id :
        (/\ method[r].verb \in {"locator_element_handle", "locator_first"}
         /\ returned[r].kind = "handle")
        => returned[r].handles[1].page_id \in origin_pages(method[r].handle)

QueryVerbs == {"page_query_selector", "frame_query_selector", "element_query_selector"}

\* C13: query_selector on a page, a frame or an element returns None when the
\* result is null and otherwise an element handle whose element id is the
\* returned id and whose page id is the page id of the handle the query was
\* made on; every call issued through an element handle sends the handle's
\* element id and page id.
C13_QuerySelectorWraps ==
    \A r \in 1..next_req_id :
        /\ (method[r].verb \in QueryVerbs /\ caller[r].pc = "returned")
           => IF caller[r].value.body = NoneVal
              THEN returned[r].kind = "none" /\ returned[r].handles = <<>>
              ELSE /\ returned[r].kind = "handle"
                   /\ Len(returned[r].handles) = 1
                   /\ returned[r].handles[1].kind = "element"
                   /\ returned[r].handles[1].id = caller[r].value.body
                   /\ returned[r].handles[1].page_id =
                         (IF method[r].handle.kind = "page"
                          THEN method[r].handle.id
                          ELSE method[r].handle.page_id)
                   /\ returned[r].handles[1] \in handles
        /\ method[r].handle.kind = "element"
           => /\ SentData(r).element_id = method[r].handle.id
              /\ SentData(r).page_id = method[r].handle.page_id

\* an element found by query_selector on a frame has been clicked with keyword
\* arguments named like its id keys
C13_FrameElementUsed ==
    /\ next_req_id = 2
    /\ method[1].verb = "frame_query_selector"
    /\ returned[1].kind = "handle"
    /\ method[2].verb = "element_click"
    /\ method[2].handle = returned[1].handles[1]
    /\ DOMAIN SentData(2).kwargs # {}

ListVerbs == {"page_query_selector_all", "frame_query_selector_all",
              "element_query_selector_all"}

\* C14: a call whose result is a list of ids returns as many handles, of the
\* kind the method makes, the i-th around the i-th id: elements for
\* query_selector_all, frames for Page.frames, and the pages of the context
\* new_context returns.
C14_ListsWrappedInOrder ==
    \A r \in 1..next_req_id :
        caller[r].pc = "returned"
        => /\ method[r].verb \in ListVerbs \cup {"page_frames"}
              => /\ returned[r].kind = "list"
                 /\ Len(returned[r].handles) = Len(caller[r].value.body)
                 /\ \A i \in 1..Len(caller[r].value.body) :
                       /\ returned[r].handles[i].id = caller[r].value.body[i]
                       /\ returned[r].handles[i].kind =
                             (IF method[r].verb = "page_frames" THEN "frame" ELSE "element")
                       /\ returned[r].handles[i] \in handles
           /\ method[r].verb = "new_context"
              => /\ returned[r].kind = "handle"
                 /\ returned[r].handles[1].kind = "context"
                 /\ Len(returned[r].handles[1].items) = Len(caller[r].value.body.pages)
                 /\ \A i \in 1..Len(caller[r].value.body.pages) :
                       /\ returned[r].handles[1].items[i] = caller[r].value.body.pages[i].id
                       /\ SocketPage(caller[r].value.body.pages[i].id) \in handles

\* query_selector_all on a page returned two handles, for ids that came in
\* the order "r2", "r1", and new_context returned a context with two pages
C14_TwoListsReturned ==
    /\ next_req_id = 2
    /\ caller[1].pc = "returned" /\ caller[2].pc = "returned"
    /\ method[1].verb = "page_query_selector_all"
    /\ Len(returned[1].handles) = 2
    /\ returned[1].handles[1].id = "r2"
    /\ method[2].verb = "new_context"
    /\ Len(returned[2].handles[1].items) = 2

\* C15: a property that denotes remote state (Page.url, Frame.url,
\* Download.suggested_filename) never returns the handle's own id.
C15_NoIdAsStandIn ==
    property.name \in {"url", "suggested_filename"}
    => property.value # property.handle.id

\* C16: once the caller of a call has been cancelled while it awaited the
\* response (which cancels the call's future), the call's identifier is in no
\* manager's pending map.
C16_CancelledDeregistered ==
    \A r \in ReqIds :
        fut[r].state = "cancelled" => \A m \in Mgr : r \notin futures[m]

\* C20: a response whose req_id belongs to a call that was already resolved,
\* or whose caller was cancelled before the response arrived, is dropped: the
\* handler raises nothing and no other call's future changes.
C20_StaleDroppedSilently ==
    [][\A r \in ReqIds :
          (/\ Delivering
           /\ response'.req_id = r
           /\ fut[r].state = "done" \/ caller[r].error = "CancelledError")
          => /\ handler_error' = NoErrors
             /\ \A q \in ReqIds \ {r} : fut'[q] = fut[q]]_vars

\* C17: when emit hands its message to the transport the call is already
\* registered and pending, so a response with the call's req_id and target
\* that is delivered before the transport's emit has returned resolves the
\* call with its result, and that result is what the call then returns.
C17_RegisteredBeforeEmit ==
    [][\A r \in ReqIds :
          /\ (next_req_id' = r /\ next_req_id # r)
             => /\ Len(transport') = Len(transport) + 1
                /\ r \in futures'[caller'[r].mgr]
                /\ fut'[r].state = "pending"
          /\ (/\ caller[r].pc = "emitting"
              /\ fut[r].state = "pending"
              /\ Delivering
              /\ response'.req_id = r
              /\ response'.browser_client_id = browser_client_id[caller[r].mgr])
             => fut'[r] = [state |-> "done", result |-> response'.result]
          /\ (caller[r].pc = "emitting" /\ fut[r].state = "done")
             => fut'[r] = fut[r] /\ caller'[r].pc \in {"emitting", "awaiting", "raised"}
          /\ (caller[r].pc = "awaiting" /\ caller'[r].pc = "returned")
             => caller'[r].value = fut[r].result]_vars

\* the response to a call has just been delivered while the call's sio.emit
\* had not yet returned, and the call's future holds the result "1.2.3"
C17_ImmediateResponse ==
    /\ Delivered
    /\ response.req_id \in ReqIds
    /\ caller[response.req_id].pc = "emitting"
    /\ fut[response.req_id] = [state |-> "done",
                               result |-> [error |-> FALSE, body |-> "1.2.3"]]

\* C19: close leaves the pending-call map, every future and every caller as
\* they were; while the client is disconnected a call that is pending is never
\* resolved and never leaves the map, and its caller stays where it is, short
\* of being cancelled by its own task.
C19_CloseLeavesPending ==
    [][/\ (connected /\ ~connected')
          => /\ futures' = futures
             /\ fut' = fut
             /\ caller' = caller
       /\ ~connected
          => \A r \in ReqIds :
                (caller[r].pc \in {"emitting", "awaiting"} /\ fut[r].state = "pending")
                => /\ fut'[r].state \in {"pending", "cancelled"}
                   /\ \A m \in Mgr : r \in futures[m] => r \in futures'[m]
                   /\ \/ caller'[r].pc \in {"emitting", "awaiting"}
                      \/ caller'[r].error = "CancelledError"]_vars

\* the client was closed while call 1 was pending; a call made since then has
\* raised, and call 1 is still registered, pending and awaited
C19_PendingAfterClose ==
    /\ ~connected
    /\ caller[1].pc = "awaiting"
    /\ fut[1].state = "pending"
    /\ 1 \in futures[1]
    /\ caller[2].error = "BadNamespaceError"

\* C18: once a response with the req_id of a call and the target of its manager
\* has been delivered while the call's caller waits (its emission being
\* successful), the call eventually returns to its caller, unless the caller is
\* cancelled; whatever other responses were delivered before.
C18_EventuallyReturns ==
    \A r \in ReqIds :
        (/\ Delivered
         /\ response.req_id = r
         /\ caller[r].pc \in {"emitting", "awaiting"}
         /\ response.browser_client_id = browser_client_id[caller[r].mgr])
        ~> (caller[r].pc = "returned" \/ caller[r].error = "CancelledError")

\* two calls were answered with different results and both have returned
C18_ReturnedAfterOthers ==
    /\ caller[2].pc = "returned"
    /\ caller[1].pc = "returned"
    /\ caller[2].value # caller[1].value

\* C21: when the transport's emit raises while a call is sent, the error
\* reaches the caller and the call's identifier is in no manager's pending map.
C21_FailedEmitDeregistered ==
    \A r \in ReqIds :
        caller[r].error = "BadNamespaceError"
        => /\ caller[r].pc = "raised"
           /\ \A m \in Mgr : r \notin futures[m]

\* C22: for a manager whose target is None, a response with the req_id of a
\* registered, pending call resolves that call with its result and removes it
\* from the map if the response carries no (or a null) browser_client_id, and
\* leaves the call registered and pending if it carries any other.
C22_UnroutedTakesNullOnly ==
    [][\A m \in Mgr, r \in ReqIds :
          (/\ browser_client_id[m] = NoneVal
           /\ Delivering
           /\ response'.req_id = r
           /\ r \in futures[m]
           /\ fut[r].state = "pending")
          => IF response'.browser_client_id = NoneVal
             THEN /\ fut'[r] = [state |-> "done", result |-> response'.result]
                  /\ r \notin futures'[m]
             ELSE /\ fut'[r] = fut[r]
                  /\ r \in futures'[m]
                  /\ handler_error'[m] = NoError]_vars

\* a response addressed to "A" and carrying the id of a pending call of the
\* manager without a target has just been handled, and the call is still
\* pending; the other call of that manager was resolved by a response without
\* a target
C22_TargetedResponseIgnored ==
    /\ browser_client_id[1] = NoneVal
    /\ Delivered
    /\ response.browser_client_id = "A"
    /\ response.req_id \in futures[1]
    /\ fut[response.req_id].state = "pending"
    /\ \E q \in ReqIds : caller[q].mgr = 1 /\ fut[q].state = "done"

\* the methods of a locator that derive another locator
Derivations == {"filter", "nth", "locator", "frame_locator"}

\* C23: a locator derived from another locator by filter, nth, locator or
\* frame_locator has the original's parent id and page id, and a call of a
\* locator that comes from Page.locator or Frame.locator, directly or by
\* derivations, with no exact argument passed anywhere, sends exact = False.
C23_DerivedLocatorKeepsScope ==
    [][/\ (property'.name \in Derivations /\ property'.handle.kind = "locator")
          => \A d \in handles' \ handles :
                /\ d.kind = "locator"
                /\ d.id = property'.handle.id
                /\ d.page_id = property'.handle.page_id
       /\ \A r \in ReqIds :
             (/\ next_req_id' = r
              /\ next_req_id # r
              /\ method'[r].handle.kind = "locator"
              /\ method'[r].handle.selector \in Selectors
              /\ method'[r].handle.exact # "True")
             => data_of(transport'[r]).exact = "False"]_vars
====
